---- MODULE Spec2Model ----
(***************************************************************************)
(* Monthly panel pipeline of src/data_processing/create_monthly.py:        *)
(* resample_to_monthly, merge_all_series and calculo_transformaciones.     *)
(*                                                                         *)
(* A cell of a table is a record [k, n, d]:                                *)
(*   k = "nan"   a missing cell (NaN / NaT)                                *)
(*   k = "num"   the rational number n/d in lowest terms, d > 0            *)
(*   k = "ln"    the natural logarithm of the positive rational n/d        *)
(*   k = "-inf", "+inf"  the infinities np.log and float subtraction give  *)
(*   k = "date"  the day with ordinal n (day 1 is 2021-01-01)              *)
(* A table (DataFrame) is a record [index, cols, rows]: the name of the    *)
(* index ("" for the default range index), the column names in order and   *)
(* the rows in order, each row a function from names to cells.             *)
(***************************************************************************)
EXTENDS Integers, Sequences, FiniteSets, TLC

VARIABLES
    pc,      \* where the caller of resample_to_monthly stands
    df,      \* the caller's table, the one it passes to resample_to_monthly
    arg,     \* that table as it was when the last call was made
    method,  \* the method of the last call
    ret,     \* what the last call returned or raised
    calls,   \* the number of calls made
    stage,   \* where a pipeline run (main) stands
    data,    \* the registry of the run: series key -> None or a table
    merged,  \* what merge_all_series returned or raised
    enriched, \* what calculo_transformaciones returned or raised
    again,   \* what calculo_transformaciones returned for its own result
    files,   \* the source files that exist when the run starts
    warned,  \* the series load_all_data printed a 'not found' line for
    final,   \* main's table after the date-range filter
    written, \* the output files main has written
    audit,   \* the missing-value table calculo_transformaciones printed last
    config,  \* START_DATE and END_DATE as written in config.py
    imported, \* what importing config.py did: returned or raised
    plotted  \* what the plotting program did: returned or raised

resample_vars == <<pc, df, arg, method, ret, calls>>
pipeline_vars == <<stage, data, merged, enriched>>
main_vars == <<again, files, warned, final, written>>
env_vars == <<config, imported, plotted>>
aux_vars == <<audit, config, imported, plotted>>
vars == <<pc, df, arg, method, ret, calls, stage, data, merged, enriched,
          again, files, warned, final, written, audit, config, imported, plotted>>

\* ------------------------------------------------------------------ bounds
MaxMonth == 3
MaxRows == 3
MaxVal == 2
MaxCalls == 2
\* months of a run with a quarterly table: a month before a quarter and the
\* next quarter month
MaxQMonth == 5
\* rows of a panel handed to the transform directly
MaxPanelRows == 2
\* rows of a table whose dates carry a timezone
MaxTzRows == 2

\* ------------------------------------------------------------------ cells
NaN == [k |-> "nan", n |-> 0, d |-> 1]

Abs(x) == IF x < 0 THEN -x ELSE x

RECURSIVE GCD(_, _)
GCD(a, b) == IF b = 0 THEN a ELSE GCD(b, a % b)

Num(n, d) ==
    LET g == GCD(Abs(n), Abs(d))
        s == IF d < 0 THEN -1 ELSE 1
    IN  [k |-> "num", n |-> (s * n) \div g, d |-> (s * d) \div g]

Val(v) == Num(v, 1)

Date(day) == [k |-> "date", n |-> day, d |-> 1]

IsNaN(c) == c.k = "nan"

\* float addition and subtraction: a missing operand gives a missing result
Add(a, b) ==
    IF IsNaN(a) \/ IsNaN(b) THEN NaN
    ELSE Num(a.n * b.d + b.n * a.d, a.d * b.d)

Sub(a, b) ==
    IF IsNaN(a) \/ IsNaN(b) THEN NaN
    ELSE Num(a.n * b.d - b.n * a.d, a.d * b.d)

DivInt(a, c) == IF IsNaN(a) THEN NaN ELSE Num(a.n, a.d * c)

\* ------------------------------------------------------------------ calendar
\* Days are ordinals of the non-leap year 2021 (and the years after it).
MonthLengths == <<31, 28, 31, 30, 31, 30, 31, 31, 30, 31, 30, 31>>

DaysInMonth(m) == MonthLengths[((m - 1) % 12) + 1]

RECURSIVE MonthEnd(_)
MonthEnd(m) == IF m = 0 THEN 0 ELSE MonthEnd(m - 1) + DaysInMonth(m)

RECURSIVE MonthFrom(_, _)
MonthFrom(day, m) == IF day <= MonthEnd(m) THEN m ELSE MonthFrom(day, m + 1)

\* the calendar month (period 'M') a day falls in
MonthOf(day) == MonthFrom(day, 0)

\* .dt.to_period('M').dt.to_timestamp('M'): the last day of the day's month
ToMonthEnd(day) == MonthEnd(MonthOf(day))

Months == 1 .. MaxMonth
FirstDay(m) == MonthEnd(m - 1) + 1
MidDay(m) == MonthEnd(m - 1) + 15
Days == UNION {{FirstDay(m), MidDay(m), MonthEnd(m)} : m \in Months}
Vals == {NaN} \cup {Val(v) : v \in 1 .. MaxVal}

\* ------------------------------------------------------------------ tables
Row1(dc, vc, day, val) == (dc :> Date(day)) @@ (vc :> val)

Table(ix, cs, rs) == [index |-> ix, cols |-> cs, rows |-> rs]

NoTable == Table("", <<>>, <<>>)

NoRet == [status |-> "none", table |-> NoTable]

DateCols == {"date", "fecha"}
Methods == {"last", "mean", "sum", "median", "Last"}

\* a single-series table as handed to resample_to_monthly: a date column and
\* one value column, any row order, any number of rows per month
InputTable(dc, n, days, vs) ==
    Table("", <<dc, "value">>, [i \in 1 .. n |-> Row1(dc, "value", days[i], vs[i])])

\* ------------------------------------------------------------------ pandas
\* a timestamp with a timezone: midnight of a day at a UTC offset in hours
DateTz(day, off) == [k |-> "datetz", n |-> day, d |-> off]

\* pd.to_datetime(col, utc=True).dt.tz_localize(None) on one cell: a naive
\* timestamp is read as UTC and made naive again, which keeps its day; a
\* timestamp with a timezone is moved to UTC and loses the timezone, and
\* midnight east of Greenwich is an hour of the day before
ToNaive(c) ==
    IF c.k = "date" THEN Date(c.n)
    ELSE IF c.k = "datetz" THEN Date(IF c.d > 0 THEN c.n - 1 ELSE c.n)
    ELSE NaN

\* t[c] = cells: the column c of t replaced, row by row
SetCol(t, c, cells) ==
    Table(t.index, t.cols,
          [i \in 1 .. Len(t.rows) |->
              [x \in DOMAIN t.rows[i] |-> IF x = c THEN cells[i] ELSE t.rows[i][x]]])

\* df.set_index(c)
SetIndex(t, c) == Table(c, SelectSeq(t.cols, LAMBDA x : x # c), t.rows)

\* (mutant: the index is left in place)
ResetIndexSkipped(t) == t

\* df.reset_index(): the index becomes the first column, under its own name
ResetIndex(t) == Table("", <<t.index>> \o t.cols, t.rows)

\* df.rename(columns = {old: new})
RenameCol(t, old, new) ==
    IF old = new THEN t
    ELSE Table(t.index,
               [i \in 1 .. Len(t.cols) |-> IF t.cols[i] = old THEN new ELSE t.cols[i]],
               [i \in 1 .. Len(t.rows) |->
                   [x \in {IF y = old THEN new ELSE y : y \in DOMAIN t.rows[i]} |->
                       IF x = new /\ old \in DOMAIN t.rows[i] THEN t.rows[i][old]
                       ELSE t.rows[i][x]]])

Range(s) == {s[i] : i \in 1 .. Len(s)}

\* df.ffill(): along the rows as they stand, each missing cell of a column
\* takes the value of the row above
RECURSIVE FfillFrom(_, _, _, _)
FfillFrom(rows, cs, i, acc) ==
    IF i > Len(rows) THEN acc
    ELSE LET r == rows[i]
             filled == [c \in DOMAIN r |->
                           IF c \in cs /\ IsNaN(r[c]) /\ i > 1 THEN acc[i - 1][c] ELSE r[c]]
         IN  FfillFrom(rows, cs, i + 1, Append(acc, filled))

Ffill(t) == Table(t.index, t.cols, FfillFrom(t.rows, Range(t.cols), 1, <<>>))

\* stable sort of the rows on a date column (what the resampler's grouper
\* does to an index that is not monotonic)
RECURSIVE InsertByDate(_, _, _)
InsertByDate(s, r, dc) ==
    IF s = <<>> THEN <<r>>
    ELSE IF s[Len(s)][dc].n <= r[dc].n THEN Append(s, r)
    ELSE Append(InsertByDate(SubSeq(s, 1, Len(s) - 1), r, dc), s[Len(s)])

RECURSIVE SortFrom(_, _, _, _)
SortFrom(rows, dc, i, acc) ==
    IF i > Len(rows) THEN acc
    ELSE SortFrom(rows, dc, i + 1, InsertByDate(acc, rows[i], dc))

SortByDate(rows, dc) == SortFrom(rows, dc, 1, <<>>)

\* the known (non-missing) cells of column c, in row order
Known(rows, c) ==
    LET ks == SelectSeq(rows, LAMBDA r : ~IsNaN(r[c]))
    IN  [i \in 1 .. Len(ks) |-> ks[i][c]]

RECURSIVE SumCells(_)
SumCells(cells) ==
    IF cells = <<>> THEN Val(0) ELSE Add(cells[1], SumCells(Tail(cells)))

\* the aggregations of one month bucket; both skip missing cells and give a
\* missing cell for a bucket with no known cell
\* (mutant: the first known cell of the bucket instead of the last)
AggFirstKnown(rows, c) ==
    LET ks == Known(rows, c) IN IF ks = <<>> THEN NaN ELSE ks[1]

AggLast(rows, c) ==
    LET ks == Known(rows, c) IN IF ks = <<>> THEN NaN ELSE ks[Len(ks)]

AggMean(rows, c) ==
    LET ks == Known(rows, c) IN IF ks = <<>> THEN NaN ELSE DivInt(SumCells(ks), Len(ks))

Agg(m, rows, c) == IF m = "mean" THEN AggMean(rows, c) ELSE AggLast(rows, c)

MinOf(S) == CHOOSE x \in S : \A y \in S : x <= y
MaxOf(S) == CHOOSE x \in S : \A y \in S : y <= x

\* the elements of a set of numbers in ascending order
SetToSeq(S) ==
    LET f[T \in SUBSET S] ==
            IF T = {} THEN <<>> ELSE LET x == MaxOf(T) IN Append(f[T \ {x}], x)
    IN  f[S]

\* (mutant: a bin only for the months that have a row)
BinMonthsObserved(rows, dc) ==
    SetToSeq({MonthOf(rows[i][dc].n) : i \in 1 .. Len(rows)})

\* the months of the bins of resample('ME'): every calendar month from the
\* month of the earliest row to the month of the latest one
BinMonths(rows, dc) ==
    IF rows = <<>> THEN <<>>
    ELSE LET ms == {MonthOf(rows[i][dc].n) : i \in 1 .. Len(rows)}
             lo == MinOf(ms)
         IN  [i \in 1 .. (MaxOf(ms) - lo + 1) |-> lo + i - 1]

\* (mutant: bins labelled at the first day of the month, as 'MS' would)
BinLabelMonthStart(m) == FirstDay(m)

\* 'ME': a bin is labelled with the last day of its month
BinLabel(m) == MonthEnd(m)

\* t.resample('ME').last() / .mean() of a table indexed by its date column
Resample(t, m) ==
    LET dc     == t.index
        sorted == SortByDate(t.rows, dc)
        bins   == BinMonths(sorted, dc)
    IN  Table(dc, t.cols,
              [i \in 1 .. Len(bins) |->
                  LET bucket == SelectSeq(sorted, LAMBDA r : MonthOf(r[dc].n) = bins[i])
                  IN  [c \in {dc} \cup Range(t.cols) |->
                          IF c = dc THEN Date(BinLabel(bins[i]))
                          ELSE Agg(m, bucket, c)]])

\* ------------------------------------------------------------------ resample_to_monthly
\* the caller's table after line 52, which assigns into it
ConvertedDates(t, date_col) ==
    SetCol(t, date_col, [i \in 1 .. Len(t.rows) |-> ToNaive(t.rows[i][date_col])])

\* (mutant: an unrecognized method falls back to 'last')
MethodBranchFallback(m) ==
    IF m = "sum" THEN "UnboundLocalError" ELSE "ok"

\* the if/elif chain of lines 59-66: 'last' and 'mean' assign df_monthly, the
\* 'sum' branch reads df_monthly before any assignment to it, anything else
\* raises ValueError
MethodBranch(m) ==
    IF m \in {"last", "mean"} THEN "ok"
    ELSE IF m = "sum" THEN "UnboundLocalError"
    ELSE "ValueError"

\* what the call returns or raises
resample_to_monthly(t, date_col, m) ==
    LET df_filled == Ffill(SetIndex(ConvertedDates(t, date_col), date_col))
    IN  IF MethodBranch(m) = "ok"
        THEN [status |-> "ok",
              table  |-> RenameCol(ResetIndex(Resample(df_filled, m)), "date", date_col)]
        ELSE [status |-> MethodBranch(m), table |-> NoTable]

\* ------------------------------------------------------------------ merge_all_series
BaseKey == "sp500"
\* the keys of lines 263 and 268-271, in merge order
merge_order == <<"vix", "fed_balance", "ff_rate", "treasury_2y", "treasury_10y", "spread_bbb">>
Keys == {BaseKey, "gdp", "shiller"} \cup Range(merge_order)

\* an entry of the registry: the absent marker None, or a table
None == [none |-> TRUE, table |-> NoTable]
Some(t) == [none |-> FALSE, table |-> t]

\* pd.to_datetime(t['date']).dt.to_period('M').dt.to_timestamp('M')
NormalizeCell(c) == IF c.k = "date" THEN Date(ToMonthEnd(c.n)) ELSE NaN
NormalizeDates(t) ==
    SetCol(t, "date", [i \in 1 .. Len(t.rows) |-> NormalizeCell(t.rows[i]["date"])])

RECURSIVE Flatten(_)
Flatten(ss) == IF ss = <<>> THEN <<>> ELSE ss[1] \o Flatten(Tail(ss))

\* pd.merge(left, right, on = 'date', how = 'left'): the left rows in order,
\* each once per right row with the same date, or once with missing cells in
\* the right columns when no right row has its date
LeftJoin(left, right) ==
    LET rcols == SelectSeq(right.cols, LAMBDA c : c # "date")
        joined(l) ==
            LET ms == SelectSeq(right.rows, LAMBDA r : r["date"] = l["date"])
            IN  IF ms = <<>>
                THEN <<l @@ [c \in Range(rcols) |-> NaN]>>
                ELSE [i \in 1 .. Len(ms) |-> l @@ [c \in Range(rcols) |-> ms[i][c]]]
    IN  Table(left.index, left.cols \o rcols,
              Flatten([i \in 1 .. Len(left.rows) |-> joined(left.rows[i])]))

\* t[cs]: the columns cs of t
Project(t, cs) ==
    Table(t.index, cs, [i \in 1 .. Len(t.rows) |-> [c \in Range(cs) |-> t.rows[i][c]]])

MulInt(a, c) == IF IsNaN(a) THEN NaN ELSE Num(a.n * c, a.d)

\* Series.interpolate(method = 'linear'): a missing cell between two known
\* cells lies on the line through them, by position; the missing cells after
\* the last known cell take its value; those before the first stay missing
\* (mutant: method='pad', every gap repeats the value before it)
InterpolatePad(cells) ==
    [i \in 1 .. Len(cells) |->
        IF ~IsNaN(cells[i]) THEN cells[i]
        ELSE LET before == {j \in 1 .. i - 1 : ~IsNaN(cells[j])}
             IN  IF before = {} THEN NaN ELSE cells[MaxOf(before)]]

Interpolate(cells) ==
    [i \in 1 .. Len(cells) |->
        IF ~IsNaN(cells[i]) THEN cells[i]
        ELSE LET before == {j \in 1 .. i - 1 : ~IsNaN(cells[j])}
                 after  == {j \in i + 1 .. Len(cells) : ~IsNaN(cells[j])}
             IN  IF before = {} THEN NaN
                 ELSE IF after = {} THEN cells[MaxOf(before)]
                 ELSE LET p == MaxOf(before)
                          q == MinOf(after)
                      IN  Add(cells[p],
                              DivInt(MulInt(Sub(cells[q], cells[p]), i - p), q - p))]

Column(t, c) == [i \in 1 .. Len(t.rows) |-> t.rows[i][c]]

\* df[c] = cells: a new column goes last, an existing one is overwritten
\* (mutant: the column name is appended even when the column exists)
AssignAppends(t, c, cells) ==
    Table(t.index, Append(t.cols, c),
          [i \in 1 .. Len(t.rows) |->
              [x \in DOMAIN t.rows[i] \cup {c} |-> IF x = c THEN cells[i] ELSE t.rows[i][x]]])

Assign(t, c, cells) ==
    Table(t.index,
          IF c \in Range(t.cols) THEN t.cols ELSE Append(t.cols, c),
          [i \in 1 .. Len(t.rows) |->
              [x \in DOMAIN t.rows[i] \cup {c} |-> IF x = c THEN cells[i] ELSE t.rows[i][x]]])

\* col.lower().strip() on the column names that occur
LowerStrip(name) ==
    CASE name = "GDP"        -> "gdp"
      [] name = " gdp "      -> "gdp"
      [] name = "Price"      -> "price"
      [] name = " dividend " -> "dividend"
      [] name = "CAPE"       -> "cape"
      [] OTHER               -> name

\* (mutant: a registry without the base series is merged all the same)
BaseCheckSkipped(d) == TRUE

\* lines 251-255: the base series must be present
BasePresent(d) == ~d[BaseKey].none

\* lines 263-265: the loop subscripts data[key] exactly when it is None, so
\* the first absent key among the six raises TypeError
NormalizeLoopRaises(d) == \E i \in 1 .. Len(merge_order) : d[merge_order[i]].none

\* lines 273-281: the chain of left joins over the keys that are present
RECURSIVE JoinChain(_, _, _)
JoinChain(d, i, acc) ==
    IF i > Len(merge_order) THEN acc
    ELSE JoinChain(d, i + 1,
                   IF d[merge_order[i]].none THEN acc
                   ELSE [table |-> LeftJoin(acc.table, d[merge_order[i]].table),
                         joins |-> acc.joins + 1])

\* lines 284-324: the quarterly series
JoinGdp(d, acc) ==
    IF d["gdp"].none THEN acc
    ELSE LET gdp0 == NormalizeDates(d["gdp"].table)
             hits == {i \in 1 .. Len(gdp0.cols) :
                          LowerStrip(gdp0.cols[i]) \in {"gdp", "gdp_nominal"}}
             gdp_df == IF hits # {} THEN RenameCol(gdp0, gdp0.cols[MinOf(hits)], "gdp_nominal")
                       ELSE gdp0
         IN  IF "gdp_nominal" \in Range(gdp_df.cols)
             THEN LET m == LeftJoin(acc.table, Project(gdp_df, <<"date", "gdp_nominal">>))
                  IN  [table |-> Assign(m, "gdp_nominal", Interpolate(Column(m, "gdp_nominal"))),
                       joins |-> acc.joins + 1]
             ELSE acc

\* lines 327-365: the external table; only the exact names 'price' and
\* 'dividend' are renamed
JoinShiller(d, acc) ==
    IF d["shiller"].none THEN acc
    ELSE LET s0 == NormalizeDates(d["shiller"].table)
             s1 == RenameCol(s0, "price", "shiller_price")
             shiller_df == RenameCol(s1, "dividend", "shiller_dividend")
         IN  [table |-> LeftJoin(acc.table, shiller_df), joins |-> acc.joins + 1]

\* what merge_all_series(d) returns or raises, and the joins it made
merge_all_series(d) ==
    IF ~BasePresent(d)
    THEN [status |-> "ValueError", table |-> NoTable, joins |-> 0]
    ELSE IF NormalizeLoopRaises(d)
    THEN [status |-> "TypeError", table |-> NoTable, joins |-> 0]
    ELSE LET df_monthly == NormalizeDates(d[BaseKey].table)
             acc == JoinShiller(d, JoinGdp(d, JoinChain(d, 1, [table |-> df_monthly, joins |-> 0])))
         IN  [status |-> "ok",
              table  |-> Table(acc.table.index, acc.table.cols, SortByDate(acc.table.rows, "date")),
              joins  |-> acc.joins]

\* ------------------------------------------------------------------ calculo_transformaciones
NegInf == [k |-> "-inf", n |-> 0, d |-> 1]
PosInf == [k |-> "+inf", n |-> 0, d |-> 1]

\* np.log of one cell: log(0) is -inf and the log of a negative number is
\* NaN, both with a warning and without raising
Ln(c) ==
    IF c.k # "num" THEN NaN
    ELSE IF c.n > 0 THEN [k |-> "ln", n |-> c.n, d |-> c.d]
    ELSE IF c.n = 0 THEN NegInf
    ELSE NaN

\* float subtraction a - b of two cells of one column
FSub(a, b) ==
    IF IsNaN(a) \/ IsNaN(b) THEN NaN
    ELSE IF a.k = "num" /\ b.k = "num" THEN Sub(a, b)
    ELSE IF a.k = "ln" /\ b.k = "ln"
    THEN LET q == Num(a.n * b.d, a.d * b.n) IN [k |-> "ln", n |-> q.n, d |-> q.d]
    ELSE IF a.k = b.k THEN NaN
    ELSE IF a.k = "-inf" \/ b.k = "+inf" THEN NegInf
    ELSE PosInf

\* Series.diff(): the first cell is missing
\* (mutant: the first cell is kept instead of being missing)
DiffFirstKept(cells) ==
    [i \in 1 .. Len(cells) |-> IF i = 1 THEN cells[1] ELSE FSub(cells[i], cells[i - 1])]

Diff(cells) == [i \in 1 .. Len(cells) |-> IF i = 1 THEN NaN ELSE FSub(cells[i], cells[i - 1])]

LogCol(cells) == [i \in 1 .. Len(cells) |-> Ln(cells[i])]

\* lines 407-408: zeros, negatives and missing cells all become missing
Clean(cells) ==
    [i \in 1 .. Len(cells) |->
        IF cells[i].k = "num" /\ cells[i].n > 0 THEN cells[i] ELSE NaN]

Has(t, c) == c \in Range(t.cols)

\* the three column operations of the transform
Apply(op, cells) ==
    CASE op = "log"   -> LogCol(cells)
      [] op = "diff"  -> Diff(cells)
      [] op = "clean" -> Clean(cells)

\* if src in df.columns: df[dst] = op(df[from])
Derive(t, src, from, dst, op) ==
    IF Has(t, src) THEN Assign(t, dst, Apply(op, Column(t, from))) ELSE t

\* what calculo_transformaciones(t) returns or raises
calculo_transformaciones(t) ==
    LET t1 == Derive(t, "sp500", "sp500", "log_sp500", "log")
        t2 == Derive(t1, "fed_balance", "fed_balance", "log_balance", "log")
        t3 == Derive(Derive(t2, "earnings", "earnings", "earnings_clean", "clean"),
                     "earnings", "earnings_clean", "log_earnings", "log")
        t4 == Derive(t3, "gdp_nominal", "gdp_nominal", "log_gdp", "log")
        t5 == Derive(t4, "log_sp500", "log_sp500", "ret_sp50", "diff")
        t6 == Derive(t5, "log_balance", "log_balance", "growth_balance", "diff")
        t7 == Derive(t6, "vix", "vix", "delta_vix", "diff")
        t8 == Derive(t7, "ff_rate", "ff_rate", "delta_ff", "diff")
    IN  IF Has(t8, "spread_bbb") /\ ~Has(t8, "ff_rate")
        THEN [status |-> "KeyError", table |-> NoTable]
        ELSE LET t9 == Derive(t8, "spread_bbb", "ff_rate", "delta_spread", "diff")
                 t10 == IF Has(t9, "treasury_10y") /\ Has(t9, "treasury_2y")
                        THEN LET sl == Assign(t9, "slope_curve",
                                              [i \in 1 .. Len(t9.rows) |->
                                                  FSub(t9.rows[i]["treasury_10y"],
                                                       t9.rows[i]["treasury_2y"])])
                             IN  Assign(sl, "delta_slope", Diff(Column(sl, "slope_curve")))
                        ELSE t9
             IN  [status |-> "ok", table |-> t10]

\* Series.round(2) of a non-negative number: the nearest hundredth, a tie
\* going to the even one
Round2(q) ==
    IF q.k # "num" THEN q
    ELSE LET x == 100 * q.n
             fl == x \div q.d
             twice == 2 * (x % q.d)
         IN  Num(IF twice < q.d THEN fl
                 ELSE IF twice > q.d THEN fl + 1
                 ELSE IF fl % 2 = 0 THEN fl ELSE fl + 1, 100)

\* line 456: df.isnull().sum() of one column; an infinity is not null
MissingCount(t, c) == Cardinality({i \in 1 .. Len(t.rows) : IsNaN(t.rows[i][c])})

\* line 457: the count as a percentage of the rows; 0/0 is NaN
MissingPct(t, c) ==
    IF Len(t.rows) = 0 THEN NaN
    ELSE Round2(Num(100 * MissingCount(t, c), Len(t.rows)))

\* (mutant: every column is shown)
AuditListsAll(count) == TRUE

\* line 466: only the columns with a missing cell are shown
AuditLists(count) == count > 0

\* lines 456-471: the rows of the table printed, one per column shown
Audit(t) ==
    {[var |-> c, count |-> MissingCount(t, c), pct |-> MissingPct(t, c)] :
        c \in {x \in Range(t.cols) : AuditLists(MissingCount(t, x))}}

\* what is on the screen after a call: a call that raised printed no table
AuditAfter(r, before) == IF r.status = "ok" THEN Audit(r.table) ELSE before

\* (mutant: no copy, the assignments land in the caller's table)
InPlace(t) ==
    LET r == calculo_transformaciones(t) IN IF r.status = "ok" THEN r.table ELSE t

\* line 393: the function works on a copy, so the table the caller passed
\* is afterwards what it was
CallerPanelAfter(t) == t

\* ------------------------------------------------------------------ a pipeline run
KeyNo(key) ==
    CASE key = "sp500" -> 10
      [] key = "vix" -> 2
      [] key = "fed_balance" -> 3
      [] key = "ff_rate" -> 1
      [] key = "treasury_2y" -> 4
      [] key = "treasury_10y" -> 6
      [] key = "spread_bbb" -> 5
      [] key = "gdp_nominal" -> 7
      [] key = "earnings" -> 8

\* the observation of a series in month m
SeriesValue(key, m) == Val(KeyNo(key) * (10 + m * m))

\* what load_and_resample hands over for a series observed in the months
\* a .. b: one row per month, dated at its last day
MonthlySeries(key, a, b) ==
    Table("", <<"date", key>>,
          [i \in 1 .. (b - a + 1) |->
              Row1("date", key, MonthEnd(a + i - 1), SeriesValue(key, a + i - 1))])

\* the quarterly table as read from its file: the rows as dated there
GdpTable(name, days) ==
    Table("", <<"date", name>>,
          [i \in 1 .. Len(days) |-> Row1("date", name, days[i], Val(MonthOf(days[i]) * MonthOf(days[i])))])

GdpOptions ==
    {None}
    \cup {Some(GdpTable("GDP", SetToSeq({FirstDay(m) : m \in S}))) : S \in SUBSET Months \ {{}}}
    \cup {Some(GdpTable("gdp_nominal", <<FirstDay(1), MidDay(1)>>)),
          Some(GdpTable("pib", <<FirstDay(1)>>))}

ShillerValue(c, m) ==
    CASE c = 2 -> Val(100 + m)
      [] c = 3 -> Val(m)
      [] c = 4 -> Val(m - 2)
      [] c = 5 -> Val(20 + m)

\* the external table as read from its file: a row per month, dated at the
\* first day of the month
ShillerTable(cols) ==
    Table("", cols,
          [m \in 1 .. MaxMonth |->
              [c \in Range(cols) |->
                  IF c = "date" THEN Date(FirstDay(m))
                  ELSE ShillerValue(CHOOSE i \in 1 .. Len(cols) : cols[i] = c, m)]])

ShillerOptions ==
    {None,
     Some(ShillerTable(<<"date", "price", "dividend", "earnings", "cape">>)),
     Some(ShillerTable(<<"date", "Price", " dividend ", "earnings", "CAPE">>))}

BaseOptions ==
    {None} \cup {Some(MonthlySeries(BaseKey, a, b)) : a \in Months, b \in Months}

NoMerge == [status |-> "none", table |-> NoTable, joins |-> 0]

ResampleIdle ==
    /\ pc = "idle" /\ df = NoTable /\ arg = NoTable
    /\ method = "" /\ ret = NoRet /\ calls = 0

NoConfig == [start |-> <<>>, end |-> <<>>]

AuxIdle ==
    /\ audit = {} /\ config = NoConfig
    /\ imported = "none" /\ plotted = "none"

MainIdle ==
    /\ again = NoRet /\ files = {} /\ warned = {}
    /\ final = NoTable /\ written = {}
    /\ AuxIdle

PipelineIdle ==
    /\ stage = "idle" /\ data = [k \in Keys |-> None]
    /\ merged = NoMerge /\ enriched = NoRet
    /\ MainIdle

\* the state after the load stage: any registry
Init ==
    /\ ResampleIdle
    /\ stage = "loaded"
    /\ \E base \in BaseOptions, present \in SUBSET Range(merge_order),
          a \in Months, b \in Months, g \in GdpOptions, sh \in ShillerOptions :
          /\ a <= b
          /\ data = [k \in Keys |->
                        IF k = BaseKey THEN base
                        ELSE IF k = "gdp" THEN g
                        ELSE IF k = "shiller" THEN sh
                        ELSE IF k \in present THEN Some(MonthlySeries(k, a, b))
                        ELSE None]
    /\ merged = NoMerge
    /\ enriched = NoRet
    /\ MainIdle

\* (mutant: the exception of a stage is caught and the run goes on)
ExceptionSwallowed(status, next) == next

\* main has no try/except: an exception raised by a stage ends the run
StageAfter(status, next) == IF status = "ok" THEN next ELSE "failed"

\* main, line 489
Merge ==
    /\ stage = "loaded"
    /\ merged' = merge_all_series(data)
    /\ stage' = StageAfter(merged'.status, "merged")
    /\ UNCHANGED <<data, enriched, resample_vars, main_vars, aux_vars>>

\* main, line 490
Transform ==
    /\ stage = "merged"
    /\ enriched' = calculo_transformaciones(merged.table)
    /\ merged' = [merged EXCEPT !.table = CallerPanelAfter(merged.table)]
    /\ audit' = AuditAfter(enriched', audit)
    /\ stage' = StageAfter(enriched'.status, "transformed")
    /\ UNCHANGED <<data, resample_vars, main_vars, env_vars>>

Next == Merge \/ Transform

Spec == Init /\ [][Next]_vars

\* ------------------------------------------------------------------ properties of merge_all_series
MergeDone == merged.status # "none"
BaseRows == data[BaseKey].table.rows
OtherKeys == Keys \ {BaseKey}
\* the months a table of the registry has a row for
MonthsOf(t) == {MonthOf(t.rows[i]["date"].n) : i \in 1 .. Len(t.rows)}
\* the columns a series brings into the panel
ColumnsOf(key) ==
    IF key = "gdp" THEN {"gdp_nominal"}
    ELSE IF key = "shiller"
    THEN {"shiller_price", "shiller_dividend", "earnings", "cape",
          "price", "dividend", "Price", " dividend ", "CAPE"}
    ELSE {key}
PanelDays == [i \in 1 .. Len(merged.table.rows) |-> merged.table.rows[i]["date"].n]

\* C1: with the base series present, the merge completes whatever other
\* series are absent; the panel has no column of an absent series and as
\* many rows as the base series.
C1_AbsentSeriesTolerated ==
    (MergeDone /\ ~data[BaseKey].none)
    => /\ merged.status = "ok"
       /\ \A key \in OtherKeys :
             data[key].none => ColumnsOf(key) \cap Range(merged.table.cols) = {}
       /\ Len(merged.table.rows) = Len(BaseRows)

\* C2: with the base series absent, the merge raises ValueError before any
\* join, whatever other series are present.
C2_BaseAbsentFailsFast ==
    (MergeDone /\ data[BaseKey].none)
    => /\ merged.status = "ValueError"
       /\ merged.joins = 0
       /\ merged.table = NoTable
       /\ stage = "failed"

\* every other series is present and the base series is not
C2_Witness ==
    /\ MergeDone /\ data[BaseKey].none
    /\ \A key \in OtherKeys : ~data[key].none
    /\ merged.status = "ValueError"

\* C3: when an optional series covers only some of the N base months, the
\* panel has exactly N rows, one for every base month, and the series'
\* column is missing in the months it does not cover.
C3_LeftJoinKeepsBaseRows ==
    \A key \in Range(merge_order) :
        (/\ MergeDone /\ ~data[BaseKey].none /\ ~data[key].none
         /\ MonthsOf(data[key].table) \subseteq MonthsOf(data[BaseKey].table)
         /\ MonthsOf(data[key].table) # MonthsOf(data[BaseKey].table))
        => /\ merged.status = "ok"
           /\ Len(merged.table.rows) = Len(BaseRows)
           /\ \A i \in 1 .. Len(BaseRows) :
                 \E j \in 1 .. Len(merged.table.rows) :
                     /\ merged.table.rows[j]["date"] = BaseRows[i]["date"]
                     /\ (MonthOf(BaseRows[i]["date"].n) \notin MonthsOf(data[key].table)
                            => IsNaN(merged.table.rows[j][key]))

\* C4: with the base series present, the panel has exactly one row per base
\* month and its dates are strictly increasing, whatever the other tables
\* hold.
C4_OneRowPerBaseMonth ==
    (MergeDone /\ ~data[BaseKey].none)
    => /\ merged.status = "ok"
       /\ Len(merged.table.rows) = Len(BaseRows)
       /\ {MonthOf(PanelDays[i]) : i \in 1 .. Len(PanelDays)} = MonthsOf(data[BaseKey].table)
       /\ \A i, j \in 1 .. Len(PanelDays) : i < j => PanelDays[i] < PanelDays[j]

\* the registry of the end-to-end scenario: a base series and a policy-rate
\* series over the same two consecutive months, every other series absent
EndToEndRegistry ==
    [k \in Keys |->
        IF k \in {BaseKey, "ff_rate"} THEN Some(MonthlySeries(k, 1, 2)) ELSE None]

\* C5: on that registry merge followed by transform completes with a panel
\* of two rows whose log-return column is [missing, ln(b2/b1)] and whose
\* rate-difference column is [missing, r2 - r1].
C5_EndToEnd ==
    (data = EndToEndRegistry /\ stage # "loaded")
    => /\ merged.status = "ok"
       /\ (stage # "merged" =>
             /\ enriched.status = "ok"
             /\ Len(enriched.table.rows) = 2
             /\ \E c \in {"ret_sp500", "ret_sp50"} \cap Range(enriched.table.cols) :
                   Column(enriched.table, c)
                     = <<NaN, FSub(Ln(SeriesValue(BaseKey, 2)), Ln(SeriesValue(BaseKey, 1)))>>
             /\ Has(enriched.table, "delta_ff")
             /\ Column(enriched.table, "delta_ff")
                   = <<NaN, Sub(SeriesValue("ff_rate", 2), SeriesValue("ff_rate", 1))>>)

\* ------------------------------------------------------------------ a run with a quarterly table
QMonths == 1 .. MaxQMonth

\* the state after the load stage when the quarterly file holds rows dated
\* at the first day of any months: the six monthly series cover every month
InitQuarterly ==
    /\ ResampleIdle
    /\ stage = "loaded"
    /\ \E a \in QMonths, b \in QMonths, present \in SUBSET Range(merge_order),
          S \in SUBSET QMonths \ {{}} :
          /\ a <= b
          /\ data = [k \in Keys |->
                        IF k = BaseKey THEN Some(MonthlySeries(BaseKey, a, b))
                        ELSE IF k = "gdp"
                        THEN Some(GdpTable("GDP", SetToSeq({FirstDay(m) : m \in S})))
                        ELSE IF k = "shiller" THEN None
                        ELSE IF k \in present THEN Some(MonthlySeries(k, 1, MaxQMonth))
                        ELSE None]
    /\ merged = NoMerge
    /\ enriched = NoRet
    /\ MainIdle

SpecQuarterly == InitQuarterly /\ [][Next]_vars

\* ------------------------------------------------------------------ properties of the quarterly interpolation
PanelReturned == MergeDone /\ merged.status = "ok"
\* the months the quarterly table has an observation for
QuarterlyKnown == MonthsOf(data["gdp"].table)
QuarterlyAt(m) ==
    LET t == data["gdp"].table
        i == CHOOSE i \in 1 .. Len(t.rows) : MonthOf(t.rows[i]["date"].n) = m
    IN  t.rows[i][t.cols[2]]
PanelMonths == MonthsOf(merged.table)
PanelGdp(m) ==
    LET i == CHOOSE i \in 1 .. Len(merged.table.rows) : MonthOf(PanelDays[i]) = m
    IN  merged.table.rows[i]["gdp_nominal"]
\* q1 is the first observation of the quarterly table and q2 the next one,
\* a quarter later
FirstTwoQuarters(q1, q2) ==
    /\ q1 \in QuarterlyKnown /\ q2 \in QuarterlyKnown
    /\ q2 = q1 + 3
    /\ \A k \in QuarterlyKnown : k >= q1 /\ ~(q1 < k /\ k < q2)
\* cell c lies on the straight line through (q1, v1) and (q2, v2) at month m
OnLine(c, m, q1, v1, q2, v2) ==
    /\ c.k = "num"
    /\ c.n * v1.d * v2.d * (q2 - q1)
          = c.d * (v1.n * v2.d * (q2 - m) + v2.n * v1.d * (m - q1))
InterpolatedBetween(q1, q2) ==
    \A m \in PanelMonths :
        /\ m < q1 => IsNaN(PanelGdp(m))
        /\ m = q1 => PanelGdp(m) = QuarterlyAt(q1)
        /\ m = q2 => PanelGdp(m) = QuarterlyAt(q2)
        /\ (q1 < m /\ m < q2)
              => OnLine(PanelGdp(m), m, q1, QuarterlyAt(q1), q2, QuarterlyAt(q2))

\* C11 as stated: when the quarterly table has its first two observations
\* at consecutive quarter months Q1 and Q2, the panel's gdp_nominal is
\* missing in every base month before Q1, holds the observations at Q1 and
\* Q2, and lies on the line between them in every base month in between.
C11_InterpolatedAnyBase ==
    (PanelReturned /\ ~data["gdp"].none)
    => \A q1 \in QMonths, q2 \in QMonths :
          FirstTwoQuarters(q1, q2) => InterpolatedBetween(q1, q2)

\* C11: the same, in the runs where Q1 and Q2 are months of the base
\* series.
C11_InterpolatedBetweenBaseQuarters ==
    (PanelReturned /\ ~data["gdp"].none)
    => \A q1 \in QMonths, q2 \in QMonths :
          (FirstTwoQuarters(q1, q2) /\ {q1, q2} \subseteq PanelMonths)
          => InterpolatedBetween(q1, q2)

\* the base series covers every month, the quarterly table the second and
\* the fifth: the panel holds missing, 4, 11, 18, 25
C11_Witness ==
    /\ PanelReturned /\ ~data["gdp"].none
    /\ QuarterlyKnown = {2, 5}
    /\ PanelMonths = QMonths
    /\ IsNaN(PanelGdp(1))
    /\ PanelGdp(3) = Val(11) /\ PanelGdp(4) = Val(18)

\* C12: the panel's gdp_nominal is missing in every base month before the
\* first and after the last observation of the quarterly table.
C12_NoExtrapolation ==
    (PanelReturned /\ ~data["gdp"].none)
    => \A m \in PanelMonths :
          ((\A k \in QuarterlyKnown : m < k) \/ (\A k \in QuarterlyKnown : k < m))
          => IsNaN(PanelGdp(m))

CanonicalShiller == {"shiller_price", "shiller_dividend", "earnings", "cape"}

\* C24: in the panel returned for a registry with the external table, the
\* four canonical columns exist, however the table spells the names of its
\* price, dividend, earnings and valuation-ratio columns.
C24_ShillerAliasesResolved ==
    (PanelReturned /\ ~data["shiller"].none)
    => CanonicalShiller \subseteq Range(merged.table.cols)

\* ------------------------------------------------------------------ a run with a series dated inside the month
DayKinds == {"first", "mid", "end"}
DayOfKind(kind, m) ==
    CASE kind = "first" -> FirstDay(m)
      [] kind = "mid" -> MidDay(m)
      [] kind = "end" -> MonthEnd(m)

\* a monthly table of a series whose rows are dated at the given day of
\* their month
DatedSeries(key, a, b, kind) ==
    Table("", <<"date", key>>,
          [i \in 1 .. (b - a + 1) |->
              Row1("date", key, DayOfKind(kind, a + i - 1), SeriesValue(key, a + i - 1))])

\* a registry handed to merge_all_series in which one of the six monthly
\* series is dated at the first, a middle or the last day of its months
InitDated ==
    /\ ResampleIdle
    /\ stage = "loaded"
    /\ \E a \in Months, b \in Months, present \in SUBSET Range(merge_order),
          k0 \in Range(merge_order), kind \in DayKinds :
          /\ a <= b
          /\ data = [k \in Keys |->
                        IF k = BaseKey THEN Some(MonthlySeries(BaseKey, a, b))
                        ELSE IF k \in {"gdp", "shiller"} \/ k \notin present THEN None
                        ELSE IF k = k0 THEN Some(DatedSeries(k, 1, MaxMonth, kind))
                        ELSE Some(MonthlySeries(k, 1, MaxMonth))]
    /\ merged = NoMerge
    /\ enriched = NoRet
    /\ MainIdle

SpecDated == InitDated /\ [][Next]_vars

\* C21: in the panel returned, an observation of a present monthly series
\* dated at any day of a base month m stands in the row dated at the last
\* day of m.
C21_PresentSeriesNormalized ==
    PanelReturned
    => \A key \in Range(merge_order) :
          ~data[key].none
          => \A i \in 1 .. Len(data[key].table.rows) :
                LET obs == data[key].table.rows[i]
                    m == MonthOf(obs["date"].n)
                IN  m \in MonthsOf(data[BaseKey].table)
                    => \E j \in 1 .. Len(merged.table.rows) :
                          /\ merged.table.rows[j]["date"] = Date(MonthEnd(m))
                          /\ merged.table.rows[j][key] = obs[key]

\* ------------------------------------------------------------------ load_all_data and main
\* a daily file of a series: observations on the first day and in the
\* middle of every month
DailyFile(key) ==
    Table("", <<"date", key>>,
          Flatten([m \in 1 .. MaxMonth |->
              <<Row1("date", key, FirstDay(m), Sub(SeriesValue(key, m), Val(1))),
                Row1("date", key, MidDay(m), SeriesValue(key, m))>>]))

\* lines 95-102: the file read, the two columns selected, resampled
load_and_resample(key) == resample_to_monthly(DailyFile(key), "date", "last").table

\* the file of the quarterly series: a row at the first day of every quarter
QuarterlyFile ==
    GdpTable("gdp_nominal", SetToSeq({FirstDay(m) : m \in {q \in Months : q % 3 = 1}}))

\* what a block of load_all_data stores for a file that exists
Loaded(key) ==
    IF key = "gdp" THEN QuarterlyFile
    ELSE IF key = "shiller"
    THEN ShillerTable(<<"date", "price", "dividend", "earnings", "cape">>)
    ELSE load_and_resample(key)

\* the else branches of lines 127-227 print the 'not found' line; the one
\* of line 163 builds the text and drops it
NotFoundPrinted(key) == key # "ff_rate"

\* the nine blocks of load_all_data in the order they run
Blocks ==
    <<"sp500", "vix", "fed_balance", "ff_rate", "treasury_2y", "treasury_10y",
      "spread_bbb", "gdp", "shiller">>

\* line 120: data = {}
EmptyDict == [k \in {} |-> None]

\* data[key] = v
Put(d, key, v) == [k \in DOMAIN d \cup {key} |-> IF k = key THEN v ELSE d[k]]

\* (mutant: the last else branch does not store None)
StoresNoneButLast(key) == key # "shiller"

\* every else branch ends with data[key] = None
StoresNone(key) == TRUE

\* one block: the file exists and its table is stored, or it does not, the
\* line is printed and None is stored
Block(F, acc, key) ==
    IF key \in F
    THEN [data |-> Put(acc.data, key, Some(Loaded(key))), warned |-> acc.warned]
    ELSE [data   |-> IF StoresNone(key) THEN Put(acc.data, key, None) ELSE acc.data,
          warned |-> IF NotFoundPrinted(key) THEN acc.warned \cup {key} ELSE acc.warned]

RECURSIVE RunBlocks(_, _, _)
RunBlocks(F, bs, acc) ==
    IF bs = <<>> THEN acc ELSE RunBlocks(F, Tail(bs), Block(F, acc, Head(bs)))

\* what load_all_data returns and prints when the files F exist
load_all_data(F) == RunBlocks(F, Blocks, [data |-> EmptyDict, warned |-> {}])

\* the keys merge_all_series looks up in the registry (lines 251, 264, 274,
\* 284, 327)
MergeLookups == {BaseKey} \cup Range(merge_order) \cup {"gdp", "shiller"}

\* config.py, lines 39-40, as days of the calendar above: 2000-01-01 and
\* 2025-12-31
START_DATE == 1 - 21 * 365
END_DATE == MonthEnd(60)

\* main, lines 491-494: the rows dated inside the configured range
TrimToRange(t) ==
    Table(t.index, t.cols,
          SelectSeq(t.rows, LAMBDA r : START_DATE <= r["date"].n /\ r["date"].n <= END_DATE))

OutputFiles == {"monthly_data.csv", "monthly_data.pkl"}

\* the state when main starts: any of the nine files may be missing
InitMain ==
    /\ ResampleIdle
    /\ stage = "start"
    /\ files \in SUBSET Keys
    /\ data = [k \in Keys |-> None]
    /\ merged = NoMerge
    /\ enriched = NoRet
    /\ again = NoRet /\ warned = {} /\ final = NoTable /\ written = {}
    /\ AuxIdle

\* main, line 488
Load ==
    /\ stage = "start"
    /\ data' = load_all_data(files).data
    /\ warned' = load_all_data(files).warned
    /\ stage' = "loaded"
    /\ UNCHANGED <<merged, enriched, again, files, final, written, resample_vars, aux_vars>>

\* main, lines 491-494
Trim ==
    /\ stage = "transformed"
    /\ final' = TrimToRange(enriched.table)
    /\ stage' = "trimmed"
    /\ UNCHANGED <<data, merged, enriched, again, files, warned, written, resample_vars, aux_vars>>

\* main, lines 497-498
WriteCsv ==
    /\ stage = "trimmed"
    /\ written' = written \cup {"monthly_data.csv"}
    /\ stage' = "csv"
    /\ UNCHANGED <<data, merged, enriched, again, files, warned, final, resample_vars, aux_vars>>

\* main, lines 501-502
WritePickle ==
    /\ stage = "csv"
    /\ written' = written \cup {"monthly_data.pkl"}
    /\ stage' = "pkl"
    /\ UNCHANGED <<data, merged, enriched, again, files, warned, final, resample_vars, aux_vars>>

\* main, lines 505-531: the summary; the first and last date of a table
\* without rows cannot be formatted
Summary ==
    /\ stage = "pkl"
    /\ stage' = IF Len(final.rows) = 0 THEN "failed" ELSE "done"
    /\ UNCHANGED <<data, merged, enriched, main_vars, resample_vars, aux_vars>>

NextMain == Load \/ Merge \/ Transform \/ Trim \/ WriteCsv \/ WritePickle \/ Summary

SpecMain == InitMain /\ [][NextMain]_vars

\* ------------------------------------------------------------------ time_series_plots.py
\* the columns the three plot functions read from the table, in the order
\* of the reads (lines 179-230, 300-332, 413-435)
PlotReads ==
    <<"date", "sp500", "fed_balance", "vix", "spread_bbb",
      "ret_sp500", "growth_balance", "delta_vix">>

\* to_csv(index=False) writes the column names as the header line and
\* read_csv gives them back as the columns
CsvColumns(t) == Range(t.cols)

\* main of the plotting program, lines 498-512: monthly_data.csv is read
\* and the plot functions look up their columns
PlotOutcome(w, t) ==
    IF "monthly_data.csv" \notin w THEN "FileNotFoundError"
    ELSE IF \E i \in 1 .. Len(PlotReads) : PlotReads[i] \notin CsvColumns(t) THEN "KeyError"
    ELSE "ok"

\* the plotting program is run after the pipeline has ended
Plot ==
    /\ stage \in {"done", "failed"}
    /\ plotted = "none"
    /\ plotted' = PlotOutcome(written, final)
    /\ stage' = StageAfter(plotted', "plotted")
    /\ UNCHANGED <<data, merged, enriched, main_vars, resample_vars, audit, config, imported>>

NextPlot == NextMain \/ Plot

SpecPlot == InitMain /\ [][NextPlot]_vars

\* C27: after a run of the pipeline with every source file in place, the
\* table written has every column the plotting program reads, and the
\* plotting program does not fail on a missing column.
C27_PlotColumnsPersisted ==
    (files = Keys /\ stage \in {"done", "plotted", "failed"})
    => /\ written = OutputFiles
       /\ Range(PlotReads) \subseteq CsvColumns(final)
       /\ plotted \in {"none", "ok"}

\* ------------------------------------------------------------------ properties of load_all_data and main
LoadDone == stage # "start"

\* C19: with the file of the base series missing the run ends with the
\* merge's ValueError and writes neither output file; and in every run an
\* output file is written only after merge and transform have both
\* returned.
C19_NoOutputBeforeTransform ==
    /\ written \subseteq OutputFiles
    /\ written # {} => (merged.status = "ok" /\ enriched.status = "ok")
    /\ BaseKey \notin files
          => /\ written = {}
             /\ stage \in {"start", "loaded", "failed"}
             /\ stage = "failed" => merged.status = "ValueError"

\* every file but the base series' exists and the run has ended in the merge
C19_Witness ==
    /\ files = Keys \ {BaseKey}
    /\ stage = "failed" /\ merged.status = "ValueError"
    /\ enriched = NoRet /\ written = {}

\* C20: after load_all_data, every series other than the base series whose
\* file does not exist had its 'not found' line printed and is absent
\* from the registry.
C20_MissingFileReported ==
    LoadDone
    => \A k \in OtherKeys : k \notin files => (k \in warned /\ data[k].none)

\* ------------------------------------------------------------------ config.py
\* A date text 'Y-M-D' is a record [y, m, d] of the digits of its fields.
Digits(ds) ==
    LET f[i \in 0 .. Len(ds)] == IF i = 0 THEN 0 ELSE 10 * f[i - 1] + ds[i]
    IN  f[Len(ds)]

\* the characters of the text, as code points: '-' is 45, '0' is 48
Hyphen == 45
Zero == 48
Chars(t) ==
    [i \in 1 .. Len(t.y) |-> Zero + t.y[i]] \o <<Hyphen>>
    \o [i \in 1 .. Len(t.m) |-> Zero + t.m[i]] \o <<Hyphen>>
    \o [i \in 1 .. Len(t.d) |-> Zero + t.d[i]]

\* a < b for two str values: the first differing character decides, and a
\* proper prefix is smaller
StrLess(a, b) ==
    \E i \in 1 .. Len(b) :
        /\ \A j \in 1 .. i - 1 : j <= Len(a) /\ a[j] = b[j]
        /\ (i > Len(a) \/ a[i] < b[i])

IsLeap(y) == (y % 4 = 0 /\ y % 100 # 0) \/ y % 400 = 0
DaysIn(y, m) == IF m = 2 /\ IsLeap(y) THEN 29 ELSE MonthLengths[m]

\* datetime.strptime(text, '%Y-%m-%d') returns: four digits of year, a
\* month and a day of one or two digits, zero-padded or not, that name a day
\* of the calendar
Strptime(t) ==
    /\ Len(t.y) = 4 /\ Digits(t.y) >= 1
    /\ Len(t.m) \in {1, 2} /\ Digits(t.m) \in 1 .. 12
    /\ Len(t.d) \in {1, 2} /\ Digits(t.d) >= 1
    /\ Digits(t.d) <= DaysIn(Digits(t.y), Digits(t.m))

HMM_N_STATES == 2
VECM_LAG_ORDER == 2

\* line 108: START_DATE >= END_DATE, a comparison of the two str values
StartNotBeforeEnd(c) == ~StrLess(Chars(c.start), Chars(c.end))

\* validate_config(), run when the module is imported
validate_config(c) ==
    IF ~Strptime(c.start) \/ ~Strptime(c.end) THEN "ValueError"
    ELSE IF StartNotBeforeEnd(c) THEN "ValueError"
    ELSE IF HMM_N_STATES < 2 THEN "ValueError"
    ELSE IF VECM_LAG_ORDER < 1 THEN "ValueError"
    ELSE "ok"

\* the date texts a configuration may hold
DateTexts ==
    [y : {<<2, 0, 0, 0>>, <<2, 0, 2, 5>>},
     m : {<<1>>, <<0, 1>>, <<9>>, <<1, 0>>, <<1, 2>>, <<1, 3>>},
     d : {<<1>>, <<0, 1>>, <<9>>, <<3, 1>>}]

\* a program of the pipeline is started with any two date texts in
\* config.py and every source file in place
InitConfig ==
    /\ ResampleIdle
    /\ stage = "import"
    /\ files = Keys
    /\ data = [k \in Keys |-> None]
    /\ merged = NoMerge /\ enriched = NoRet
    /\ again = NoRet /\ warned = {} /\ final = NoTable /\ written = {}
    /\ audit = {} /\ imported = "none" /\ plotted = "none"
    /\ \E s \in DateTexts, e \in DateTexts : config = [start |-> s, end |-> e]

\* create_monthly.py, line 19: from utils.config import ...
ImportConfig ==
    /\ stage = "import"
    /\ imported' = validate_config(config)
    /\ stage' = StageAfter(imported', "start")
    /\ UNCHANGED <<data, merged, enriched, main_vars, resample_vars, audit, config, plotted>>

NextConfig == ImportConfig \/ Load

SpecConfig == InitConfig /\ [][NextConfig]_vars

\* the calendar dates of the two texts, where both name one
CalendarEarlier(c) ==
    \/ Digits(c.start.y) < Digits(c.end.y)
    \/ /\ Digits(c.start.y) = Digits(c.end.y)
       /\ \/ Digits(c.start.m) < Digits(c.end.m)
          \/ /\ Digits(c.start.m) = Digits(c.end.m)
             /\ Digits(c.start.d) < Digits(c.end.d)
BothValid(c) == Strptime(c.start) /\ Strptime(c.end)

\* C26: importing the configuration raises, and no stage of the pipeline
\* runs, whenever one of the two texts is not a valid date or START_DATE is
\* not earlier than END_DATE as a calendar date; in every other case the
\* import returns.
C26_DateRangeValidated ==
    /\ imported = "none" => stage = "import"
    /\ imported # "none"
          => IF BothValid(config) /\ CalendarEarlier(config)
             THEN imported = "ok"
             ELSE imported = "ValueError" /\ stage = "failed"

\* C28: the registry load_all_data returns has exactly the nine keys, the
\* entry of a key is the loaded table when its file exists and None when it
\* does not, and every key merge_all_series looks up is in the registry.
C28_RegistryHasNineKeys ==
    LoadDone
    => /\ DOMAIN data
            = {"sp500", "vix", "fed_balance", "ff_rate", "treasury_2y",
               "treasury_10y", "spread_bbb", "gdp", "shiller"}
       /\ \A k \in DOMAIN data :
             IF k \in files THEN data[k] = Some(Loaded(k)) ELSE data[k] = None
       /\ MergeLookups \subseteq DOMAIN data

\* only the files of the base series and of the quarterly series exist
C28_Witness ==
    /\ LoadDone /\ files = {"sp500", "gdp"}
    /\ ~data["sp500"].none /\ ~data["gdp"].none
    /\ Cardinality({k \in DOMAIN data : data[k] = None}) = 7

\* ------------------------------------------------------------------ callers of calculo_transformaciones
SourceCols ==
    <<"sp500", "vix", "fed_balance", "ff_rate", "treasury_2y", "treasury_10y",
      "spread_bbb", "gdp_nominal", "earnings">>
\* the levels a panel cell is drawn from: missing, negative, zero, positive
Levels == {NaN} \cup {Val(v) : v \in -1 .. MaxVal}
Scale(c, k) == IF IsNaN(c) THEN NaN ELSE Val(c.n * k)

\* a wide monthly panel with the source columns S: every column holds the
\* profile u at the column's own scale
Panel(S, u) ==
    Table("", <<"date">> \o SelectSeq(SourceCols, LAMBDA c : c \in S),
          [i \in 1 .. Len(u) |->
              [c \in {"date"} \cup S |->
                  IF c = "date" THEN Date(MonthEnd(i)) ELSE Scale(u[i], KeyNo(c))]])

\* a caller holds any such panel and is about to pass it to the transform
InitTransform ==
    /\ ResampleIdle
    /\ stage = "merged"
    /\ data = [k \in Keys |-> None]
    /\ \E S \in SUBSET Range(SourceCols), n \in 0 .. MaxPanelRows :
          \E u \in [1 .. n -> Levels] :
              merged = [status |-> "ok", table |-> Panel(S, u), joins |-> 0]
    /\ enriched = NoRet
    /\ MainIdle

\* the caller passes the table it got back to the transform once more
Retransform ==
    /\ stage = "transformed"
    /\ again' = calculo_transformaciones(enriched.table)
    /\ audit' = AuditAfter(again', audit)
    /\ stage' = StageAfter(again'.status, "retransformed")
    /\ UNCHANGED <<data, merged, enriched, files, warned, final, written, resample_vars, env_vars>>

NextTransform == Transform \/ Retransform

SpecTransform == InitTransform /\ [][NextTransform]_vars

\* ------------------------------------------------------------------ properties of calculo_transformaciones
TransformCalled == stage \in {"transformed", "retransformed", "failed"} /\ enriched.status # "none"
TransformReturned == TransformCalled /\ enriched.status = "ok"
PassedCols == Range(merged.table.cols)
ReturnedCols == Range(enriched.table.cols)
ReturnedRows == enriched.table.rows
NonPositive(c) == c.k = "num" /\ c.n <= 0
\* the logged source columns, the log column of each and the columns
\* differenced from that log column
LoggedCols == {"sp500", "fed_balance", "gdp_nominal", "earnings"}
LogOf(c) ==
    CASE c = "sp500" -> "log_sp500"
      [] c = "fed_balance" -> "log_balance"
      [] c = "gdp_nominal" -> "log_gdp"
      [] c = "earnings" -> "log_earnings"
LogDiffsOf(c) ==
    CASE c = "sp500" -> {"ret_sp50", "ret_sp500"}
      [] c = "fed_balance" -> {"growth_balance"}
      [] OTHER -> {}

\* C13: in the table returned, a zero or negative cell of a logged source
\* column has a missing cell in the log column, and the log-difference
\* cells of that row and of the next row are missing.
C13_NonPositiveLogsMissing ==
    TransformReturned
    => \A c \in LoggedCols \cap PassedCols : \A i \in 1 .. Len(ReturnedRows) :
          NonPositive(merged.table.rows[i][c])
          => /\ IsNaN(ReturnedRows[i][LogOf(c)])
             /\ \A dc \in LogDiffsOf(c) \cap ReturnedCols :
                   /\ IsNaN(ReturnedRows[i][dc])
                   /\ i < Len(ReturnedRows) => IsNaN(ReturnedRows[i + 1][dc])

DiffCols ==
    {"ret_sp50", "ret_sp500", "growth_balance", "delta_vix", "delta_ff",
     "delta_spread", "delta_slope"}

\* C14: in the table returned for a non-empty panel, the first row of every
\* differenced column is missing.
C14_FirstDifferenceMissing ==
    (TransformReturned /\ Len(ReturnedRows) >= 1)
    => \A c \in DiffCols \cap ReturnedCols : IsNaN(ReturnedRows[1][c])

\* every differenced column is there and the first row of the panel passed
\* holds a known positive value in every source column
C14_Witness ==
    /\ TransformReturned /\ Len(ReturnedRows) = MaxPanelRows
    /\ PassedCols = {"date"} \cup Range(SourceCols)
    /\ \A c \in Range(SourceCols) : merged.table.rows[1][c].k = "num" /\ merged.table.rows[1][c].n > 0
    /\ {"ret_sp50", "growth_balance", "delta_vix", "delta_ff", "delta_spread", "delta_slope"}
          \subseteq ReturnedCols
    /\ \A c \in DiffCols \cap ReturnedCols : IsNaN(ReturnedRows[1][c])

\* the derived columns and the source columns each is computed from
DerivedCols ==
    {"log_sp500", "log_balance", "earnings_clean", "log_earnings", "log_gdp",
     "ret_sp50", "growth_balance", "delta_vix", "delta_ff", "delta_spread",
     "slope_curve", "delta_slope"}
InputsOf(c) ==
    CASE c \in {"log_sp500", "ret_sp50"} -> {"sp500"}
      [] c \in {"log_balance", "growth_balance"} -> {"fed_balance"}
      [] c \in {"earnings_clean", "log_earnings"} -> {"earnings"}
      [] c = "log_gdp" -> {"gdp_nominal"}
      [] c = "delta_vix" -> {"vix"}
      [] c = "delta_ff" -> {"ff_rate"}
      [] c = "delta_spread" -> {"spread_bbb"}
      [] c \in {"slope_curve", "delta_slope"} -> {"treasury_10y", "treasury_2y"}

\* C15: for a panel with the date and any subset of the source columns the
\* transform returns, and the table returned has a derived column exactly
\* when the panel has all the source columns the derived column needs.
C15_AnySubsetOfSources ==
    (TransformCalled /\ PassedCols \subseteq {"date"} \cup Range(SourceCols))
    => /\ enriched.status = "ok"
       /\ \A c \in DerivedCols : c \in ReturnedCols <=> InputsOf(c) \subseteq PassedCols

\* C23: in the table returned for a panel with spread_bbb, delta_spread in
\* every row after the first is spread_bbb of the row minus spread_bbb of
\* the row before.
C23_DeltaSpreadOfSpread ==
    (TransformReturned /\ "spread_bbb" \in PassedCols)
    => /\ "delta_spread" \in ReturnedCols
       /\ \A i \in 2 .. Len(ReturnedRows) :
             ReturnedRows[i]["delta_spread"]
               = FSub(merged.table.rows[i]["spread_bbb"], merged.table.rows[i - 1]["spread_bbb"])

NullCells(c) == {i \in 1 .. Len(ReturnedRows) : ReturnedRows[i][c].k = "nan"}
AuditOf(c) == {r \in audit : r.var = c}
AuditColumns == {"Variable", "NaN count", "NaN %"}

\* C25 as stated: the audit has an entry for every column of the table
\* returned, with the number of its missing cells and that number divided
\* by the number of rows, and the table has no column of the audit.
C25_AuditEveryColumn ==
    TransformReturned
    => /\ \A c \in ReturnedCols :
             \E r \in AuditOf(c) :
                 /\ r.count = Cardinality(NullCells(c))
                 /\ r.pct.k = "num"
                 /\ r.pct.n * Len(ReturnedRows) = r.count * r.pct.d
       /\ AuditColumns \cap ReturnedCols = {}

\* C25 amended: the audit has exactly one entry for every column with a
\* missing cell and none for the other columns; an entry holds the number
\* of missing cells and, to the nearest hundredth, that number as a
\* percentage of the rows; the table has no column of the audit.
C25_AuditColumnsWithMissing ==
    TransformReturned
    => /\ \A c \in ReturnedCols :
             Cardinality(AuditOf(c)) = IF NullCells(c) = {} THEN 0 ELSE 1
       /\ \A r \in audit :
             /\ r.var \in ReturnedCols
             /\ r.count = Cardinality(NullCells(r.var))
             /\ r.pct.k = "num" /\ 100 % r.pct.d = 0
             /\ 200 * Abs(r.pct.n * Len(ReturnedRows) - 100 * r.count * r.pct.d)
                   <= r.pct.d * Len(ReturnedRows)
       /\ AuditColumns \cap ReturnedCols = {}

\* a panel of two rows whose second row is missing: the source columns are
\* listed with one missing cell, 50 per cent, and the date column is not
\* listed
C25_Witness ==
    /\ TransformReturned /\ Len(ReturnedRows) = MaxPanelRows
    /\ {"date", "vix", "delta_vix"} \subseteq ReturnedCols
    /\ AuditOf("date") = {}
    /\ NullCells("vix") = {MaxPanelRows}
    /\ \E r \in AuditOf("vix") : r.count = 1 /\ r.pct = Num(100, MaxPanelRows)
    /\ \E r \in AuditOf("delta_vix") : r.count = MaxPanelRows /\ r.pct = Val(100)

\* the table holds the columns of `before` in their order and cells, and
\* as many rows
Keeps(before, after) ==
    /\ Len(after.rows) = Len(before.rows)
    /\ Len(after.cols) >= Len(before.cols)
    /\ SubSeq(after.cols, 1, Len(before.cols)) = before.cols
    /\ \A i \in 1 .. Len(before.rows) : \A c \in Range(before.cols) :
          after.rows[i][c] = before.rows[i][c]

\* C16: a call of the transform leaves the table it was passed as it was,
\* and the table it returns has every column of that table with the same
\* cells in the same row order, and the same number of rows.
C16_PurelyAdditive ==
    [][Transform => /\ merged' = merged
                    /\ enriched'.status = "ok" => Keeps(merged.table, enriched'.table)]_vars

\* a panel of two rows with every source column came back twelve columns
\* wider
C16_Witness ==
    /\ TransformReturned /\ Len(merged.table.rows) = MaxPanelRows
    /\ PassedCols = {"date"} \cup Range(SourceCols)
    /\ Len(enriched.table.cols) = Len(merged.table.cols) + Cardinality(DerivedCols)
    /\ Keeps(merged.table, enriched.table)

\* C17: the transform applied to a table it returned returns the same
\* columns with the same cells.
C17_Idempotent ==
    (stage = "retransformed" \/ again.status # "none")
    => /\ again.status = "ok"
       /\ again.table = enriched.table

\* the table of the first call had every derived column and a row of known
\* values
C17_Witness ==
    /\ stage = "retransformed" /\ again.table = enriched.table
    /\ DerivedCols \subseteq ReturnedCols
    /\ Len(ReturnedRows) = MaxPanelRows
    /\ \E i \in 1 .. Len(ReturnedRows) : ~IsNaN(ReturnedRows[i]["delta_slope"])

\* ------------------------------------------------------------------ callers of resample_to_monthly
DateColOf(t) == t.cols[1]

InitResample ==
    /\ pc = "ready"
    /\ \E dc \in DateCols, n \in 0 .. MaxRows :
          \E days \in [1 .. n -> Days], vs \in [1 .. n -> Vals] :
              df = InputTable(dc, n, days, vs)
    /\ arg = NoTable
    /\ method = ""
    /\ ret = NoRet
    /\ calls = 0
    /\ PipelineIdle

\* one call resample_to_monthly(df, date_col, m) by a caller holding df
ResampleCall(m) ==
    /\ pc = "ready"
    /\ calls < MaxCalls
    /\ arg' = df
    /\ method' = m
    /\ df' = ConvertedDates(df, DateColOf(df))
    /\ ret' = resample_to_monthly(df, DateColOf(df), m)
    /\ pc' = IF ret'.status = "ok" THEN "returned" ELSE "raised"
    /\ calls' = calls + 1
    /\ UNCHANGED <<pipeline_vars, main_vars, aux_vars>>

\* the caller takes the returned table as the table of its next call
Reuse ==
    /\ pc = "returned"
    /\ calls < MaxCalls
    /\ df' = ret.table
    /\ pc' = "ready"
    /\ UNCHANGED <<arg, method, ret, calls, pipeline_vars, main_vars, aux_vars>>

NextResample == (\E m \in Methods : ResampleCall(m)) \/ Reuse

SpecResample == InitResample /\ [][NextResample]_vars

\* the UTC offsets of the dates in a file: New York in winter, Madrid in summer
TzOffsets == {-5, 2}

\* a caller holds a table read from a file whose dates carry a UTC offset
InitResampleTz ==
    /\ pc = "ready"
    /\ \E dc \in DateCols, n \in 0 .. MaxTzRows, off \in TzOffsets :
          \E days \in [1 .. n -> Days], vs \in [1 .. n -> Vals] :
              df = Table("", <<dc, "value">>,
                         [i \in 1 .. n |-> (dc :> DateTz(days[i], off)) @@ ("value" :> vs[i])])
    /\ arg = NoTable
    /\ method = ""
    /\ ret = NoRet
    /\ calls = 0
    /\ PipelineIdle

SpecResampleTz == InitResampleTz /\ [][NextResample]_vars

\* ------------------------------------------------------------------ properties of resample_to_monthly
Called == calls > 0
ArgDate == DateColOf(arg)
ArgValue == arg.cols[2]
DayOf(r) == r[ArgDate].n
Chronological(rows) ==
    \A i, j \in 1 .. Len(rows) : i < j => DayOf(rows[i]) <= DayOf(rows[j])
InMonth(rows, m) == SelectSeq(rows, LAMBDA r : MonthOf(DayOf(r)) = m)
KnownRows(rows) == SelectSeq(rows, LAMBDA r : ~IsNaN(r[ArgValue]))
ArgMonths == {MonthOf(DayOf(arg.rows[i])) : i \in 1 .. Len(arg.rows)}
\* the rows of the returned table dated at the last day of month m
RetAt(m) == SelectSeq(ret.table.rows, LAMBDA r : r[ArgDate] = Date(MonthEnd(m)))

\* C6: with values v1..vk in chronological order, all known and all in one
\* month, each valid method returns a table of one row: 'last' gives vk,
\* 'mean' gives their arithmetic mean and 'sum' gives their sum.
C6_AggregationByMethod ==
    (/\ Called
     /\ method \in {"last", "mean", "sum"}
     /\ Len(arg.rows) >= 1
     /\ Cardinality(ArgMonths) = 1
     /\ Chronological(arg.rows)
     /\ KnownRows(arg.rows) = arg.rows)
    => LET vs == [i \in 1 .. Len(arg.rows) |-> arg.rows[i][ArgValue]]
           expected == CASE method = "last" -> vs[Len(vs)]
                         [] method = "mean" -> DivInt(SumCells(vs), Len(vs))
                         [] method = "sum"  -> SumCells(vs)
       IN  /\ ret.status = "ok"
           /\ Len(ret.table.rows) = 1
           /\ ret.table.rows[1][ArgValue] = expected

\* C7 as stated: with method 'last', every month with a known observation
\* gets exactly one row, dated at month-end, carrying the known observation
\* of that month with the latest date, whatever the row order.
C7_LastKnownAnyOrder ==
    (Called /\ method = "last")
    => /\ ret.status = "ok"
       /\ \A m \in ArgMonths :
             LET ks == KnownRows(InMonth(arg.rows, m))
             IN  ks # <<>> =>
                   /\ Len(RetAt(m)) = 1
                   /\ \E i \in 1 .. Len(ks) :
                         /\ \A j \in 1 .. Len(ks) : DayOf(ks[j]) <= DayOf(ks[i])
                         /\ RetAt(m)[1][ArgValue] = ks[i][ArgValue]

\* C7 amended: the same, for a table whose rows are in chronological order;
\* the value is that of the last known observation of the month.
C7_LastKnownChronological ==
    (Called /\ method = "last" /\ Chronological(arg.rows))
    => /\ ret.status = "ok"
       /\ \A m \in ArgMonths :
             LET ks == KnownRows(InMonth(arg.rows, m))
             IN  ks # <<>> =>
                   /\ Len(RetAt(m)) = 1
                   /\ RetAt(m)[1][ArgValue] = ks[Len(ks)][ArgValue]

\* a month whose two observations are both before its last day
C7_Witness ==
    /\ Called /\ method = "last" /\ Len(arg.rows) = 2
    /\ DayOf(arg.rows[1]) = FirstDay(1) /\ DayOf(arg.rows[2]) = MidDay(1)
    /\ arg.rows[1][ArgValue] = Val(1) /\ arg.rows[2][ArgValue] = Val(2)
    /\ Len(ret.table.rows) = 1
    /\ ret.table.rows[1] = Row1(ArgDate, ArgValue, MonthEnd(1), Val(2))

\* a monthly table: distinct month-end dates in ascending order
IsMonthly(t) ==
    /\ t.index = "" /\ Len(t.cols) = 2
    /\ \A i \in 1 .. Len(t.rows) : t.rows[i][t.cols[1]].n = ToMonthEnd(t.rows[i][t.cols[1]].n)
    /\ \A i, j \in 1 .. Len(t.rows) : i < j => t.rows[i][t.cols[1]].n < t.rows[j][t.cols[1]].n
ContiguousMonths(t) ==
    \A i \in 1 .. Len(t.rows) - 1 :
        MonthOf(t.rows[i + 1][t.cols[1]].n) = MonthOf(t.rows[i][t.cols[1]].n) + 1
NoGapInValues(t) ==
    \A i, j \in 1 .. Len(t.rows) :
        (i < j /\ ~IsNaN(t.rows[i][t.cols[2]])) => ~IsNaN(t.rows[j][t.cols[2]])

\* C8 as stated: method 'last' returns every monthly table unchanged, and
\* applying it to its own result changes nothing.
C8_IdentityOnMonthly ==
    (Called /\ method = "last" /\ IsMonthly(arg))
    => /\ ret.status = "ok"
       /\ ret.table = arg
       /\ resample_to_monthly(ret.table, ArgDate, "last") = ret

\* C8 amended: this holds of the monthly tables whose months are consecutive
\* and in which no missing cell follows a known one.
C8_IdentityOnContiguousMonthly ==
    (Called /\ method = "last" /\ IsMonthly(arg) /\ ContiguousMonths(arg) /\ NoGapInValues(arg))
    => /\ ret.status = "ok"
       /\ ret.table = arg
       /\ resample_to_monthly(ret.table, ArgDate, "last") = ret

\* a three-month table resampled twice
C8_Witness ==
    /\ calls = 2 /\ method = "last" /\ pc = "returned"
    /\ IsMonthly(arg) /\ ContiguousMonths(arg) /\ NoGapInValues(arg)
    /\ Len(arg.rows) = 3
    /\ arg.rows[1][ArgValue] = NaN /\ arg.rows[3][ArgValue] = Val(2)
    /\ ret.table = arg

\* C9: a returned table has the default index and the input's date column as
\* an ordinary first column; every row is dated at the last day of a month
\* and the dates are strictly ascending, so no month appears twice.
C9_MonthEndRowsAscending ==
    (Called /\ ret.status = "ok")
    => LET rows == ret.table.rows
       IN  /\ ret.table.index = ""
           /\ ret.table.cols = arg.cols
           /\ \A i \in 1 .. Len(rows) :
                 /\ DOMAIN rows[i] = Range(arg.cols)
                 /\ rows[i][ArgDate].k = "date"
                 /\ DayOf(rows[i]) = ToMonthEnd(DayOf(rows[i]))
           /\ \A i, j \in 1 .. Len(rows) :
                 i < j => /\ DayOf(rows[i]) < DayOf(rows[j])
                          /\ MonthOf(DayOf(rows[i])) # MonthOf(DayOf(rows[j]))

\* rows out of order, two of them in one month, under a date column that is
\* not named 'date'
C9_Witness ==
    /\ Called /\ ret.status = "ok" /\ ArgDate = "fecha"
    /\ Len(arg.rows) = 3 /\ ~Chronological(arg.rows)
    /\ Cardinality(ArgMonths) = 2
    /\ Len(ret.table.rows) >= 2

\* C10: a method outside 'last', 'mean', 'sum' raises ValueError and no
\* table is returned.
C10_UnknownMethodRaises ==
    (Called /\ method \notin {"last", "mean", "sum"})
    => ret.status = "ValueError" /\ ret.table = NoTable /\ pc = "raised"

C10_Witness ==
    /\ Called /\ method = "median" /\ Len(arg.rows) = 2
    /\ ret.status = "ValueError"

\* C18: after a call, whether it returned or raised, the table the caller
\* passed holds the dates it held, timezone included, and the same value
\* cells.
C18_InputUntouched ==
    (Called /\ pc \in {"returned", "raised"}) => df = arg


RetMonths == {MonthOf(ret.table.rows[i][ArgDate].n) : i \in 1 .. Len(ret.table.rows)}

\* C22 as stated: a returned table has a row for month m only if the table
\* passed has an observation dated in m.
C22_NoFabricatedMonth ==
    (Called /\ ret.status = "ok") => RetMonths \subseteq ArgMonths

\* C22 amended: a returned table has a row for exactly the months from the
\* first to the last month observed, and the row of a month without an
\* observation holds a missing value.
C22_GapMonthsHoldMissing ==
    (Called /\ ret.status = "ok")
    => /\ RetMonths = {m \in 0 .. MaxMonth :
                          /\ \E k \in ArgMonths : k <= m
                          /\ \E k \in ArgMonths : m <= k}
       /\ \A i \in 1 .. Len(ret.table.rows) :
             MonthOf(ret.table.rows[i][ArgDate].n) \notin ArgMonths
             => IsNaN(ret.table.rows[i][ArgValue])

\* observations in the first and the third month only: the table returned
\* has a second row, dated at the end of the second month, without a value
C22_Witness ==
    /\ Called /\ ret.status = "ok"
    /\ ArgMonths = {1, 3}
    /\ \A i \in 1 .. Len(arg.rows) : ~IsNaN(arg.rows[i][ArgValue])
    /\ Len(ret.table.rows) = 3
    /\ ret.table.rows[2][ArgDate] = Date(MonthEnd(2))
    /\ IsNaN(ret.table.rows[2][ArgValue])

====
